---- MODULE Spec2Model ----
(***************************************************************************)
(* Model of code/interactive_webapp/backend.py: the in-memory distribution *)
(* table (kalshi_data), its assembly at import time, and the five query    *)
(* handlers built on it.                                                   *)
(*                                                                         *)
(* Representation.                                                         *)
(*   - A DataFrame is a sequence of records (row order is kept).           *)
(*   - A date string is a sequence of one-character strings; a pandas      *)
(*     Timestamp is the integer YYYYMMDDHH (date and hour), whose order is *)
(*     the order of time; a datetime.date is the integer YYYYMMDD.         *)
(*     to_datetime, strftime, normalize and to_date convert between them.  *)
(*   - Optional[x] is a set: {} is None, {v} is the value v.               *)
(*   - probability is an integer number of tenths, so sums are exact.      *)
(***************************************************************************)
EXTENDS Integers, Sequences, FiniteSets, TLC

VARIABLES fed_csv, cpi_csv, kalshi_data, phase, request, response, steps

vars == <<fed_csv, cpi_csv, kalshi_data, phase, request, response, steps>>

(***************************************************************************)
(* Bounds of the model.                                                    *)
(***************************************************************************)
NumStrikes == 3
MaxProb == 1
MaxRows == 2

(***************************************************************************)
(* Generic helpers on sequences.                                           *)
(***************************************************************************)
Range(s) == {s[i] : i \in DOMAIN s}

None == {}

Some(v) == {v}

Val(opt) == CHOOSE v \in opt : TRUE

RECURSIVE SumProb(_)
SumProb(s) == IF s = <<>> THEN 0 ELSE Head(s).probability + SumProb(Tail(s))

\* Series.unique() / DataFrame.drop_duplicates(): first occurrences, in order.
RECURSIVE drop_duplicates(_)
drop_duplicates(s) ==
    IF s = <<>> THEN <<>>
    ELSE LET init == drop_duplicates(SubSeq(s, 1, Len(s) - 1))
             last == s[Len(s)]
         IN  IF last \in Range(init) THEN init ELSE Append(init, last)

\* Stable insertion of row r into a sequence ordered ascending by strike.
RECURSIVE InsertByStrike(_, _)
InsertByStrike(s, r) ==
    IF s = <<>> THEN <<r>>
    ELSE IF s[Len(s)].strike <= r.strike THEN Append(s, r)
    ELSE Append(InsertByStrike(SubSeq(s, 1, Len(s) - 1), r), s[Len(s)])

\* DataFrame.sort_values('strike'): ascending, ties keep their input order.
RECURSIVE sort_by_strike(_)
sort_by_strike(s) ==
    IF s = <<>> THEN <<>>
    ELSE InsertByStrike(sort_by_strike(SubSeq(s, 1, Len(s) - 1)), s[Len(s)])

\* Stable insertion of row r into a sequence ordered ascending by horizon_date.
RECURSIVE InsertByHorizon(_, _)
InsertByHorizon(s, r) ==
    IF s = <<>> THEN <<r>>
    ELSE IF s[Len(s)].horizon_date <= r.horizon_date THEN Append(s, r)
    ELSE Append(InsertByHorizon(SubSeq(s, 1, Len(s) - 1), r), s[Len(s)])

\* DataFrame.sort_values('horizon_date')
RECURSIVE sort_by_horizon(_)
sort_by_horizon(s) ==
    IF s = <<>> THEN <<>>
    ELSE InsertByHorizon(sort_by_horizon(SubSeq(s, 1, Len(s) - 1)), s[Len(s)])

\* Stable insertion of row r into a sequence ordered descending by horizon_date.
RECURSIVE InsertByHorizonDesc(_, _)
InsertByHorizonDesc(s, r) ==
    IF s = <<>> THEN <<r>>
    ELSE IF s[Len(s)].horizon_date >= r.horizon_date THEN Append(s, r)
    ELSE Append(InsertByHorizonDesc(SubSeq(s, 1, Len(s) - 1), r), s[Len(s)])

\* DataFrame.sort_values('horizon_date', ascending=False)
RECURSIVE sort_by_horizon_desc(_)
sort_by_horizon_desc(s) ==
    IF s = <<>> THEN <<>>
    ELSE InsertByHorizonDesc(sort_by_horizon_desc(SubSeq(s, 1, Len(s) - 1)), s[Len(s)])

\* sorted(list of numbers)
RECURSIVE InsertNum(_, _)
InsertNum(s, x) ==
    IF s = <<>> THEN <<x>>
    ELSE IF s[Len(s)] <= x THEN Append(s, x)
    ELSE Append(InsertNum(SubSeq(s, 1, Len(s) - 1), x), s[Len(s)])

RECURSIVE sorted_num(_)
sorted_num(s) ==
    IF s = <<>> THEN <<>>
    ELSE InsertNum(sorted_num(SubSeq(s, 1, Len(s) - 1)), s[Len(s)])

(***************************************************************************)
(* Dates: parsing (pd.to_datetime, read_csv parse_dates) and formatting    *)
(* (strftime('%Y-%m-%d'), Timestamp.date()).                               *)
(***************************************************************************)
DigitChars == <<"0", "1", "2", "3", "4", "5", "6", "7", "8", "9">>

DigitVal(c) == CHOOSE d \in 0..9 : DigitChars[d + 1] = c

to_datetime(s) ==
    LET year  == 1000 * DigitVal(s[1]) + 100 * DigitVal(s[2])
                   + 10 * DigitVal(s[3]) + DigitVal(s[4])
        month == 10 * DigitVal(s[6]) + DigitVal(s[7])
        day   == 10 * DigitVal(s[9]) + DigitVal(s[10])
    IN  (year * 10000 + month * 100 + day) * 100

\* Timestamp.date(): the calendar day, without the time of day.
to_date(ts) == ts \div 100

\* Timestamp.normalize(): midnight of the same day.
normalize(ts) == (ts \div 100) * 100

strftime(ts) ==
    LET year  == ts \div 1000000
        month == (ts \div 10000) % 100
        day   == (ts \div 100) % 100
        Ch(n) == DigitChars[(n % 10) + 1]
    IN  <<Ch(year \div 1000), Ch(year \div 100), Ch(year \div 10), Ch(year), "-",
          Ch(month \div 10), Ch(month), "-", Ch(day \div 10), Ch(day)>>

\* Lexicographic order of two ISO date strings of equal length ("-" < "0").
CharOrd(c) == IF c = "-" THEN 0 ELSE 1 + DigitVal(c)

RECURSIVE StrLeq(_, _)
StrLeq(a, b) ==
    IF a = <<>> THEN TRUE
    ELSE IF b = <<>> THEN FALSE
    ELSE IF CharOrd(Head(a)) < CharOrd(Head(b)) THEN TRUE
    ELSE IF CharOrd(Head(a)) > CharOrd(Head(b)) THEN FALSE
    ELSE StrLeq(Tail(a), Tail(b))

\* sorted(list of strings)
RECURSIVE InsertStr(_, _)
InsertStr(s, x) ==
    IF s = <<>> THEN <<x>>
    ELSE IF StrLeq(s[Len(s)], x) THEN Append(s, x)
    ELSE Append(InsertStr(SubSeq(s, 1, Len(s) - 1), x), s[Len(s)])

RECURSIVE sorted_str(_)
sorted_str(s) ==
    IF s = <<>> THEN <<>>
    ELSE InsertStr(sorted_str(SubSeq(s, 1, Len(s) - 1)), s[Len(s)])

(***************************************************************************)
(* Constants of the program.                                               *)
(***************************************************************************)
D_2025_07_30 == <<"2", "0", "2", "5", "-", "0", "7", "-", "3", "0">>
D_2025_09_17 == <<"2", "0", "2", "5", "-", "0", "9", "-", "1", "7">>
D_2025_10_29 == <<"2", "0", "2", "5", "-", "1", "0", "-", "2", "9">>
D_2025_12_10 == <<"2", "0", "2", "5", "-", "1", "2", "-", "1", "0">>

\* Dates used by the input files and the requests.
D_2025_03_19 == <<"2", "0", "2", "5", "-", "0", "3", "-", "1", "9">>
D_2025_06_16 == <<"2", "0", "2", "5", "-", "0", "6", "-", "1", "6">>
D_2025_06_17 == <<"2", "0", "2", "5", "-", "0", "6", "-", "1", "7">>
D_2025_06_18 == <<"2", "0", "2", "5", "-", "0", "6", "-", "1", "8">>
D_2025_06_20 == <<"2", "0", "2", "5", "-", "0", "6", "-", "2", "0">>
D_2025_07_31 == <<"2", "0", "2", "5", "-", "0", "7", "-", "3", "1">>

HORIZON_MAP ==
    [c \in {"FED-25JUL", "FED-25SEP", "FED-25OCT", "FED-25DEC"} |->
        CASE c = "FED-25JUL" -> D_2025_07_30
          [] c = "FED-25SEP" -> D_2025_09_17
          [] c = "FED-25OCT" -> D_2025_10_29
          [] c = "FED-25DEC" -> D_2025_12_10]

FED_LEVELS == "fed_levels"

HEADLINE_CPI == "headline_cpi_releases"

(***************************************************************************)
(* Table assembly.                                                         *)
(***************************************************************************)
\* One CSV row -> one table row: dates parsed, columns renamed, type stamped.
load_row(raw, data_type) ==
    [prediction_date   |-> to_datetime(raw.date),
     horizon_date      |-> to_datetime(raw.expiry_date),
     contract_preamble |-> raw.contract_preamble,
     strike            |-> raw.strike,
     probability       |-> raw.probability,
     type              |-> data_type]

load_and_process_csv(file, data_type) ==
    [i \in DOMAIN file |-> load_row(file[i], data_type)]

\* Mutant of override_row: the nominal expiry is kept for every row.
override_row_skip(row) == row.horizon_date

\* The lambda of apply_horizon_override: the new horizon_date of one row.
override_row(row) ==
    IF row.contract_preamble \in DOMAIN HORIZON_MAP
    THEN to_datetime(HORIZON_MAP[row.contract_preamble])
    ELSE row.horizon_date

apply_horizon_override(df) ==
    [i \in DOMAIN df |-> [df[i] EXCEPT !.horizon_date = override_row(df[i])]]

\* Mutant of assemble: the override is applied to the other category.
assemble_swapped(fed, cpi) ==
    load_and_process_csv(fed, FED_LEVELS)
        \o apply_horizon_override(load_and_process_csv(cpi, HEADLINE_CPI))

\* pd.concat([...], ignore_index=True) of the two categories.
assemble(fed, cpi) ==
    apply_horizon_override(load_and_process_csv(fed, FED_LEVELS))
        \o load_and_process_csv(cpi, HEADLINE_CPI)

(***************************************************************************)
(* get_distribution: the rebinning of one (contract, prediction date)      *)
(* series.                                                                 *)
(***************************************************************************)
\* df[df[col] == v][['strike', 'probability']]: the series of one date.
series_of(df, d) ==
    LET sel == SelectSeq(df, LAMBDA r : r.prediction_date = d)
    IN  [i \in DOMAIN sel |->
            [strike |-> sel[i].strike, probability |-> sel[i].probability]]

\* Mutant of merge_lump: the row at the bound is overwritten with the lump.
merge_lump_overwrite(subset, bin, lump) ==
    [i \in DOMAIN subset |->
        IF subset[i].strike = bin
        THEN [subset[i] EXCEPT !.probability = lump]
        ELSE subset[i]]

\* subset.assign(probability = probability + lump where strike == bin)
merge_lump(subset, bin, lump) ==
    [i \in DOMAIN subset |->
        IF subset[i].strike = bin
        THEN [subset[i] EXCEPT !.probability = @ + lump]
        ELSE subset[i]]

\* Mutant of lower_step: the kept rows are those strictly above the bound.
lower_step_strict(subset, smallest_bin) ==
    IF smallest_bin = None THEN subset
    ELSE LET bin   == Val(smallest_bin)
             lower == SelectSeq(subset, LAMBDA r : r.strike < bin)
             lump  == SumProb(lower)
             kept  == SelectSeq(subset, LAMBDA r : r.strike > bin)
         IN  IF lump > 0
             THEN IF bin \notin {kept[i].strike : i \in DOMAIN kept}
                  THEN <<[strike |-> bin, probability |-> lump]>> \o kept
                  ELSE merge_lump(kept, bin, lump)
             ELSE kept

\* Mutant of lower_step: the membership test of the bound is inverted.
lower_step_inverted(subset, smallest_bin) ==
    IF smallest_bin = None THEN subset
    ELSE LET bin   == Val(smallest_bin)
             lower == SelectSeq(subset, LAMBDA r : r.strike < bin)
             lump  == SumProb(lower)
             kept  == SelectSeq(subset, LAMBDA r : r.strike >= bin)
         IN  IF lump > 0
             THEN IF bin \in {kept[i].strike : i \in DOMAIN kept}
                  THEN <<[strike |-> bin, probability |-> lump]>> \o kept
                  ELSE merge_lump(kept, bin, lump)
             ELSE kept

\* Mutant of lower_step: the lump is folded when it is >= 0.
lower_step_nonneg(subset, smallest_bin) ==
    IF smallest_bin = None THEN subset
    ELSE LET bin   == Val(smallest_bin)
             lower == SelectSeq(subset, LAMBDA r : r.strike < bin)
             lump  == SumProb(lower)
             kept  == SelectSeq(subset, LAMBDA r : r.strike >= bin)
         IN  IF lump >= 0
             THEN IF bin \notin {kept[i].strike : i \in DOMAIN kept}
                  THEN <<[strike |-> bin, probability |-> lump]>> \o kept
                  ELSE merge_lump(kept, bin, lump)
             ELSE kept

\* "Handle lower bound"
lower_step(subset, smallest_bin) ==
    IF smallest_bin = None THEN subset
    ELSE LET bin   == Val(smallest_bin)
             lower == SelectSeq(subset, LAMBDA r : r.strike < bin)
             lump  == SumProb(lower)
             kept  == SelectSeq(subset, LAMBDA r : r.strike >= bin)
         IN  IF lump > 0
             THEN IF bin \notin {kept[i].strike : i \in DOMAIN kept}
                  THEN <<[strike |-> bin, probability |-> lump]>> \o kept
                  ELSE merge_lump(kept, bin, lump)
             ELSE kept

\* Mutant of upper_step: the lump is always appended as a new row.
upper_step_append(subset, largest_bin) ==
    IF largest_bin = None THEN subset
    ELSE LET bin   == Val(largest_bin)
             upper == SelectSeq(subset, LAMBDA r : r.strike > bin)
             lump  == SumProb(upper)
             kept  == SelectSeq(subset, LAMBDA r : r.strike <= bin)
         IN  IF lump > 0
             THEN kept \o <<[strike |-> bin, probability |-> lump]>>
             ELSE kept

\* Mutant of upper_step: the rows above the bound are not removed.
upper_step_keep(subset, largest_bin) ==
    IF largest_bin = None THEN subset
    ELSE LET bin   == Val(largest_bin)
             upper == SelectSeq(subset, LAMBDA r : r.strike > bin)
             lump  == SumProb(upper)
         IN  IF lump > 0
             THEN IF bin \notin {subset[i].strike : i \in DOMAIN subset}
                  THEN subset \o <<[strike |-> bin, probability |-> lump]>>
                  ELSE merge_lump(subset, bin, lump)
             ELSE subset

\* "Handle upper bound"
upper_step(subset, largest_bin) ==
    IF largest_bin = None THEN subset
    ELSE LET bin   == Val(largest_bin)
             upper == SelectSeq(subset, LAMBDA r : r.strike > bin)
             lump  == SumProb(upper)
             kept  == SelectSeq(subset, LAMBDA r : r.strike <= bin)
         IN  IF lump > 0
             THEN IF bin \notin {kept[i].strike : i \in DOMAIN kept}
                  THEN kept \o <<[strike |-> bin, probability |-> lump]>>
                  ELSE merge_lump(kept, bin, lump)
             ELSE kept

\* Mutant of rebin_date: the records are stored without the final sort.
rebin_date_unsorted(df, date_str, smallest_bin, largest_bin) ==
    LET subset == series_of(df, to_datetime(date_str))
    IN  IF subset = <<>>
        THEN [subset |-> <<>>, after_lower |-> <<>>, after_upper |-> <<>>,
              records |-> <<>>]
        ELSE LET lo == lower_step(subset, smallest_bin)
                 hi == upper_step(lo, largest_bin)
             IN  [subset |-> subset, after_lower |-> lo, after_upper |-> hi,
                  records |-> hi]

\* One iteration of the loop over prediction_dates: the subset after each
\* stage, and the records stored in output[date_str].
rebin_date(df, date_str, smallest_bin, largest_bin) ==
    LET subset == series_of(df, to_datetime(date_str))
    IN  IF subset = <<>>
        THEN [subset |-> <<>>, after_lower |-> <<>>, after_upper |-> <<>>,
              records |-> <<>>]
        ELSE LET lo == lower_step(subset, smallest_bin)
                 hi == upper_step(lo, largest_bin)
             IN  [subset |-> subset, after_lower |-> lo, after_upper |-> hi,
                  records |-> sort_by_strike(hi)]

filter_contract(df, contract_preamble) ==
    SelectSeq(df, LAMBDA r : r.contract_preamble = contract_preamble)

strike_column(df) == [i \in DOMAIN df |-> df[i].strike]

get_distribution(table, contract_preamble, prediction_dates, smallest_bin, largest_bin) ==
    LET df == filter_contract(table, contract_preamble)
    IN  [strike_labels |-> sorted_num(drop_duplicates(strike_column(df))),
         data |-> [d \in Range(prediction_dates) |->
                      rebin_date(df, d, smallest_bin, largest_bin).records]]

(***************************************************************************)
(* The other handlers.                                                     *)
(***************************************************************************)
filter_type(df, type) == SelectSeq(df, LAMBDA r : r.type = type)

\* df[["contract_preamble", "horizon_date"]]
contract_horizons(df) ==
    [i \in DOMAIN df |->
        [contract_preamble |-> df[i].contract_preamble,
         horizon_date |-> df[i].horizon_date]]

\* "if type:" is true of a string that is given and not empty.
truthy(type) == type # None /\ Val(type) # ""

get_contracts(table, type) ==
    LET df == IF truthy(type) THEN filter_type(table, Val(type)) ELSE table
        contracts_sorted == sort_by_horizon_desc(drop_duplicates(contract_horizons(df)))
    IN  [contracts |->
            [i \in DOMAIN contracts_sorted |-> contracts_sorted[i].contract_preamble]]

get_types(table) ==
    [types |-> drop_duplicates([i \in DOMAIN table |-> table[i].type])]

get_prediction_dates(table, contract_preamble, type) ==
    LET filtered == filter_type(filter_contract(table, contract_preamble), type)
    IN  IF filtered = <<>>
        THEN [dates |-> <<>>]
        ELSE LET unique_dates ==
                     drop_duplicates([i \in DOMAIN filtered |->
                                         strftime(filtered[i].prediction_date)])
             IN  [dates |-> sorted_str(unique_dates)]

RECURSIVE MaxOf(_)
MaxOf(S) ==
    LET x == CHOOSE y \in S : TRUE
    IN  IF S = {x} THEN x
        ELSE LET m == MaxOf(S \ {x}) IN IF x > m THEN x ELSE m

Failed(error) == [status |-> "error", error |-> error]

\* Mutant of contract_info_of: horizons that have not passed yet are offered.
contract_info_of_pending(table, df, now) ==
    IF df = <<>> THEN Failed("IndexError")
    ELSE LET this_type     == df[1].type
             this_horizon  == df[1].horizon_date
             latest_pred   == MaxOf({df[i].prediction_date : i \in DOMAIN df})
             type_horizons == sort_by_horizon(drop_duplicates(
                                  contract_horizons(filter_type(table, this_type))))
             previous_horizons ==
                 SelectSeq(type_horizons, LAMBDA r : r.horizon_date < this_horizon)
             previous_valid ==
                 IF previous_horizons # <<>>
                 THEN Some(MaxOf({previous_horizons[i].horizon_date :
                                     i \in DOMAIN previous_horizons}))
                 ELSE None
         IN  [status |-> "ok",
              body |-> [horizon_date |-> to_date(this_horizon),
                        previous_horizon_date |->
                            IF previous_valid # None
                            THEN Some(to_date(Val(previous_valid))) ELSE None,
                        latest_prediction_date |-> to_date(latest_pred)]]

\* Lines 139-158 of get_contract_info, for the rows df of the contract; .iloc[0]
\* of an empty frame raises IndexError.
contract_info_of(table, df, now) ==
    IF df = <<>> THEN Failed("IndexError")
    ELSE LET this_type     == df[1].type
             this_horizon  == df[1].horizon_date
             latest_pred   == MaxOf({df[i].prediction_date : i \in DOMAIN df})
             today         == normalize(now)
             type_horizons == sort_by_horizon(drop_duplicates(
                                  contract_horizons(filter_type(table, this_type))))
             previous_horizons ==
                 SelectSeq(type_horizons, LAMBDA r : r.horizon_date < this_horizon)
             past_horizons ==
                 SelectSeq(previous_horizons, LAMBDA r : r.horizon_date < today)
             previous_valid ==
                 IF past_horizons # <<>>
                 THEN Some(MaxOf({past_horizons[i].horizon_date : i \in DOMAIN past_horizons}))
                 ELSE None
         IN  [status |-> "ok",
              body |-> [horizon_date |-> to_date(this_horizon),
                        previous_horizon_date |->
                            IF previous_valid # None
                            THEN Some(to_date(Val(previous_valid))) ELSE None,
                        latest_prediction_date |-> to_date(latest_pred)]]

\* The empty dict returned for a contract without rows.
EmptyDict == [k \in {} |-> k]

\* Mutant of get_contract_info: the test for an empty frame is missing.
get_contract_info_unguarded(table, contract_preamble, now) ==
    contract_info_of(table, filter_contract(table, contract_preamble), now)

get_contract_info(table, contract_preamble, now) ==
    LET df == filter_contract(table, contract_preamble)
    IN  IF df = <<>>
        THEN [status |-> "ok", body |-> EmptyDict]
        ELSE contract_info_of(table, df, now)

(***************************************************************************)
(* The state machine.                                                      *)
(***************************************************************************)
NoRequest == [op |-> "none"]

NoResponse == [status |-> "none"]

Ok(body) == [status |-> "ok", body |-> body]

\* Module import: both files are loaded and the table is assembled.
Startup ==
    /\ phase = "startup"
    /\ kalshi_data' = assemble(fed_csv, cpi_csv)
    /\ phase' = "serving"
    /\ UNCHANGED <<fed_csv, cpi_csv, request, response, steps>>

\* Mutant of GetDistribution: the filtered frame is assigned back to the
\* global table.
GetDistribution_narrowing(contracts, date_lists, bins) ==
    /\ phase = "serving"
    /\ request = NoRequest
    /\ \E c \in contracts, dates \in date_lists, lo \in bins, hi \in bins :
          /\ request' = [op |-> "distribution", contract_preamble |-> c,
                         prediction_dates |-> dates,
                         smallest_bin |-> lo, largest_bin |-> hi]
          /\ response' = Ok(get_distribution(kalshi_data, c, dates, lo, hi))
          /\ steps' = [d \in Range(dates) |->
                          rebin_date(filter_contract(kalshi_data, c), d, lo, hi)]
          /\ kalshi_data' = filter_contract(kalshi_data, c)
    /\ UNCHANGED <<fed_csv, cpi_csv, phase>>

\* GET /distribution
GetDistribution(contracts, date_lists, bins) ==
    /\ phase = "serving"
    /\ request = NoRequest
    /\ \E c \in contracts, dates \in date_lists, lo \in bins, hi \in bins :
          /\ request' = [op |-> "distribution", contract_preamble |-> c,
                         prediction_dates |-> dates,
                         smallest_bin |-> lo, largest_bin |-> hi]
          /\ response' = Ok(get_distribution(kalshi_data, c, dates, lo, hi))
          /\ steps' = [d \in Range(dates) |->
                          rebin_date(filter_contract(kalshi_data, c), d, lo, hi)]
    /\ UNCHANGED <<fed_csv, cpi_csv, kalshi_data, phase>>

\* GET /contracts
GetContracts(types) ==
    /\ phase = "serving"
    /\ request = NoRequest
    /\ \E type \in types :
          /\ request' = [op |-> "contracts", type |-> type]
          /\ response' = Ok(get_contracts(kalshi_data, type))
    /\ UNCHANGED <<fed_csv, cpi_csv, kalshi_data, phase, steps>>

\* GET /types
GetTypes ==
    /\ phase = "serving"
    /\ request = NoRequest
    /\ request' = [op |-> "types"]
    /\ response' = Ok(get_types(kalshi_data))
    /\ UNCHANGED <<fed_csv, cpi_csv, kalshi_data, phase, steps>>

\* GET /prediction-dates
GetPredictionDates(contracts, types) ==
    /\ phase = "serving"
    /\ request = NoRequest
    /\ \E c \in contracts, type \in types :
          /\ request' = [op |-> "prediction_dates", contract_preamble |-> c,
                         type |-> type]
          /\ response' = Ok(get_prediction_dates(kalshi_data, c, type))
    /\ UNCHANGED <<fed_csv, cpi_csv, kalshi_data, phase, steps>>

\* GET /contract-info; now is the wall clock read by pd.to_datetime("today").
GetContractInfo(contracts, nows) ==
    /\ phase = "serving"
    /\ request = NoRequest
    /\ \E c \in contracts, now \in nows :
          /\ request' = [op |-> "contract_info", contract_preamble |-> c, now |-> now]
          /\ response' = get_contract_info(kalshi_data, c, now)
    /\ UNCHANGED <<fed_csv, cpi_csv, kalshi_data, phase, steps>>

\* The response is sent; the handler's locals are gone.
Reply ==
    /\ phase = "serving"
    /\ request # NoRequest
    /\ request' = NoRequest
    /\ response' = NoResponse
    /\ steps' = <<>>
    /\ UNCHANGED <<fed_csv, cpi_csv, kalshi_data, phase>>

(***************************************************************************)
(* SpecDist: the table holds one series of the contract FED-25JUL on       *)
(* 2025-06-16, in any row order, next to rows of another date and of       *)
(* another contract; /distribution is queried with every pair of bins.     *)
(***************************************************************************)
Strikes == {10 * k : k \in 1..NumStrikes}

SeriesRows == [strike : Strikes, probability : 0..MaxProb]

\* Row sequences with unique strikes and non-negative probabilities.
SeriesSet ==
    UNION {{s \in [1..n -> SeriesRows] :
               \A i, j \in 1..n : i # j => s[i].strike # s[j].strike} :
           n \in 0..NumStrikes}

\* The series {10: 0.1, 20: 0.3, 30: 0.6}, in tenths.
ExampleSeries ==
    <<[strike |-> 10, probability |-> 1], [strike |-> 20, probability |-> 3],
      [strike |-> 30, probability |-> 6]>>

CsvRow(c, date, expiry, strike, probability) ==
    [date |-> date, expiry_date |-> expiry, contract_preamble |-> c,
     strike |-> strike, probability |-> probability]

FedFileOf(series) ==
    <<CsvRow("FED-25JUL", D_2025_06_17, D_2025_07_31, 20, 1)>>
    \o [i \in DOMAIN series |->
           CsvRow("FED-25JUL", D_2025_06_16, D_2025_07_31,
                  series[i].strike, series[i].probability)]

CpiFileDist == <<CsvRow("CPI-25JUN", D_2025_06_16, D_2025_06_18, 10, 1)>>

BinValues == {5, 15, 20, 30, 35}

Bins == {None} \cup {Some(b) : b \in BinValues}

DistContracts == {"FED-25JUL"}

DistDateLists == {<<D_2025_06_16>>, <<D_2025_06_16, D_2025_06_17>>}

InitDist ==
    /\ \E series \in SeriesSet \cup {ExampleSeries} : fed_csv = FedFileOf(series)
    /\ cpi_csv = CpiFileDist
    /\ kalshi_data = <<>>
    /\ phase = "startup"
    /\ request = NoRequest
    /\ response = NoResponse
    /\ steps = <<>>

NextDist ==
    \/ Startup
    \/ GetDistribution(DistContracts, DistDateLists, Bins)
    \/ Reply

SpecDist == InitDist /\ [][NextDist]_vars

(***************************************************************************)
(* Properties of the rebinning (checked under SpecDist).                   *)
(***************************************************************************)
RECURSIVE MassOf(_)
MassOf(rows) ==
    IF rows = {} THEN 0
    ELSE LET r == CHOOSE x \in rows : TRUE
         IN  r.probability + MassOf(rows \ {r})

\* The (strike, probability) rows the input files hold for a contract on a
\* date, as a set (strikes are unique within it).
InputRows(c, date_str) ==
    {[strike |-> x.strike, probability |-> x.probability] :
        x \in {y \in Range(fed_csv) \cup Range(cpi_csv) :
                  y.contract_preamble = c /\ y.date = date_str}}

Answered == phase = "serving" /\ request.op = "distribution"

RecordsOf(d) == response.body.data[d]

StrikesOf(rows) == {r.strike : r \in rows}

Ascending(seq) == \A i, j \in DOMAIN seq : i < j => seq[i].strike < seq[j].strike

\* C1: for every series with unique strikes and non-negative probabilities
\* and every pair of bounds (lower > upper included), the probabilities of
\* the output sum to the sum of the input probabilities.
MassConservation ==
    Answered =>
        \A d \in DOMAIN response.body.data :
            SumProb(RecordsOf(d)) = MassOf(InputRows(request.contract_preamble, d))

\* A lower bound above the upper bound, both folding mass.
MassConservationWitness ==
    /\ Answered
    /\ request.smallest_bin = Some(20) /\ request.largest_bin = Some(15)
    /\ D_2025_06_16 \in DOMAIN response.body.data
    /\ InputRows(request.contract_preamble, D_2025_06_16) = Range(ExampleSeries)
    /\ RecordsOf(D_2025_06_16) = <<[strike |-> 15, probability |-> 10]>>

\* C2: the output of every date is ordered ascending by strike and holds no
\* strike twice.
SortInvariant ==
    Answered => \A d \in DOMAIN response.body.data : Ascending(RecordsOf(d))

\* A lower lump inserted in front of rows that were out of order before the
\* final sort.
SortInvariantWitness ==
    /\ Answered
    /\ request.smallest_bin = Some(15)
    /\ D_2025_06_16 \in DOMAIN steps
    /\ ~Ascending(steps[D_2025_06_16].after_upper)
    /\ Len(RecordsOf(D_2025_06_16)) = 3

\* The two truncation steps a request ran on the series of date d, each as
\* [bound, outside, inside, before, after]: the rows of the series the step
\* started from that lie strictly outside / within the bound, and the series
\* before and after the step.
LowerStepOf(d) ==
    LET b == Val(request.smallest_bin)
        before == steps[d].subset
    IN  [bound   |-> b,
         outside |-> {r \in Range(before) : r.strike < b},
         inside  |-> {r \in Range(before) : ~(r.strike < b)},
         kept    |-> SelectSeq(before, LAMBDA r : ~(r.strike < b)),
         after   |-> steps[d].after_lower]

UpperStepOf(d) ==
    LET b == Val(request.largest_bin)
        before == steps[d].after_lower
    IN  [bound   |-> b,
         outside |-> {r \in Range(before) : r.strike > b},
         inside  |-> {r \in Range(before) : ~(r.strike > b)},
         kept    |-> SelectSeq(before, LAMBDA r : ~(r.strike > b)),
         after   |-> steps[d].after_upper]

\* The truncation steps that ran in the current state.
StepsRun ==
    IF ~Answered THEN {}
    ELSE LET ran == {d \in DOMAIN steps : steps[d].subset # <<>>}
         IN  {LowerStepOf(d) : d \in {x \in ran : request.smallest_bin # None}}
             \cup {UpperStepOf(d) : d \in {x \in ran : request.largest_bin # None}}

IsMerge(st) == MassOf(st.outside) > 0 /\ st.bound \in StrikesOf(st.inside)

IsInsert(st) == MassOf(st.outside) > 0 /\ st.bound \notin StrikesOf(st.inside)

IsZeroLump(st) == MassOf(st.outside) = 0

\* C3: a step whose lump is positive and whose series has a row at the bound
\* adds no row, removes the out-of-range rows, gives the row at the bound its
\* previous probability plus the lump and leaves every other row alone.
LumpMerge ==
    \A st \in StepsRun :
        IsMerge(st) =>
            /\ Len(st.after) = Cardinality(st.inside)
            /\ Range(st.after) =
                  {IF r.strike = st.bound
                   THEN [r EXCEPT !.probability = @ + MassOf(st.outside)]
                   ELSE r : r \in st.inside}

\* {10: 0.1, 20: 0.3, 30: 0.6} with lower_bound = 20 gives [(20, 0.4), (30, 0.6)].
LumpMergeWitness ==
    /\ Answered
    /\ request.smallest_bin = Some(20) /\ request.largest_bin = None
    /\ D_2025_06_16 \in DOMAIN steps
    /\ steps[D_2025_06_16].subset = ExampleSeries
    /\ LowerStepOf(D_2025_06_16) \in StepsRun
    /\ IsMerge(LowerStepOf(D_2025_06_16))
    /\ RecordsOf(D_2025_06_16) =
          <<[strike |-> 20, probability |-> 4], [strike |-> 30, probability |-> 6]>>

\* C4: a step whose lump is positive and whose series has no row at the
\* bound adds exactly the row (bound, lump), removes the out-of-range rows
\* and keeps every in-range row.
LumpInsert ==
    \A st \in StepsRun :
        IsInsert(st) =>
            /\ Len(st.after) = Cardinality(st.inside) + 1
            /\ Range(st.after) =
                  st.inside \cup {[strike |-> st.bound, probability |-> MassOf(st.outside)]}

\* {10: 0.1, 20: 0.3, 30: 0.6} with lower_bound = 15 gives
\* [(15, 0.1), (20, 0.3), (30, 0.6)].
LumpInsertWitness ==
    /\ Answered
    /\ request.smallest_bin = Some(15) /\ request.largest_bin = None
    /\ D_2025_06_16 \in DOMAIN steps
    /\ steps[D_2025_06_16].subset = ExampleSeries
    /\ LowerStepOf(D_2025_06_16) \in StepsRun
    /\ IsInsert(LowerStepOf(D_2025_06_16))
    /\ RecordsOf(D_2025_06_16) =
          <<[strike |-> 15, probability |-> 1], [strike |-> 20, probability |-> 3],
            [strike |-> 30, probability |-> 6]>>

\* C5: with lower_bound <= upper_bound when both are given, every strike of
\* the output of a non-empty series lies within the supplied bounds.
TruncationRange ==
    Answered =>
        LET lo == request.smallest_bin
            hi == request.largest_bin
        IN  (lo # None /\ hi # None => Val(lo) <= Val(hi)) =>
                \A d \in DOMAIN response.body.data :
                    \A r \in Range(RecordsOf(d)) :
                        /\ lo # None => r.strike >= Val(lo)
                        /\ hi # None => r.strike <= Val(hi)

\* Both bounds strictly inside the strikes of the series: rows fall outside
\* at both ends.
TruncationRangeWitness ==
    /\ Answered
    /\ request.smallest_bin = Some(15) /\ request.largest_bin = Some(20)
    /\ D_2025_06_16 \in DOMAIN steps
    /\ StrikesOf(Range(steps[D_2025_06_16].subset)) = {10, 20, 30}
    /\ StrikesOf(Range(RecordsOf(D_2025_06_16))) = {15, 20}

\* C6: a step whose lump is 0 removes the out-of-range rows and does nothing
\* else: no row is inserted at the bound and a row at the bound keeps its
\* probability.
ZeroLump ==
    \A st \in StepsRun : IsZeroLump(st) => st.after = st.kept

\* A zero-probability row below the bound is dropped and the output has no
\* row at the bound.
ZeroLumpWitness ==
    /\ Answered
    /\ request.smallest_bin = Some(15) /\ request.largest_bin = None
    /\ D_2025_06_16 \in DOMAIN steps
    /\ LowerStepOf(D_2025_06_16) \in StepsRun
    /\ IsZeroLump(LowerStepOf(D_2025_06_16))
    /\ LowerStepOf(D_2025_06_16).outside # {}
    /\ RecordsOf(D_2025_06_16) # <<>>
    /\ 15 \notin StrikesOf(Range(RecordsOf(D_2025_06_16)))

\* C7: with lower_bound below the minimum strike and upper_bound above the
\* maximum strike, or with neither bound, the output holds exactly the input
\* rows, ascending by strike.
NoOpBound ==
    Answered =>
        \A d \in DOMAIN response.body.data :
            LET input == InputRows(request.contract_preamble, d)
                lo == request.smallest_bin
                hi == request.largest_bin
                outer == /\ lo # None /\ hi # None
                         /\ \A r \in input : Val(lo) < r.strike /\ r.strike < Val(hi)
            IN  (outer \/ (lo = None /\ hi = None)) =>
                    /\ Range(RecordsOf(d)) = input
                    /\ Len(RecordsOf(d)) = Cardinality(input)
                    /\ Ascending(RecordsOf(d))

\* Bounds 5 and 35 around a three-row series that was stored out of order.
NoOpBoundWitness ==
    /\ Answered
    /\ request.smallest_bin = Some(5) /\ request.largest_bin = Some(35)
    /\ D_2025_06_16 \in DOMAIN steps
    /\ Len(steps[D_2025_06_16].subset) = 3
    /\ ~Ascending(steps[D_2025_06_16].subset)
    /\ Len(RecordsOf(D_2025_06_16)) = 3

(***************************************************************************)
(* Spec: the whole service.  The two input files hold at most MaxRows rows *)
(* together, of contracts inside and outside HORIZON_MAP, or they hold the *)
(* three FED contracts with horizons 2025-07-30, 2025-06-18 and            *)
(* 2025-03-19.  Within a (contract, prediction date) strikes are unique.   *)
(***************************************************************************)
FedRowChoices ==
    {CsvRow(c, d, e, 10, 1) :
        c \in {"FED-25JUL", "FED-25JUN"},
        d \in {D_2025_06_16, D_2025_06_17},
        e \in {D_2025_06_18, D_2025_07_31}}

CpiRowChoices ==
    {CsvRow("CPI-25JUN", d, e, 10, 1) :
        d \in {D_2025_06_16, D_2025_06_17},
        e \in {D_2025_03_19, D_2025_06_18}}

FilesOf(rows, n) == UNION {[1..k -> rows] : k \in 0..n}

UniqueStrikes(file) ==
    \A i, j \in DOMAIN file :
        i # j => <<file[i].contract_preamble, file[i].date, file[i].strike>>
                     # <<file[j].contract_preamble, file[j].date, file[j].strike>>

ExampleFedFile ==
    <<CsvRow("FED-25JUL", D_2025_06_16, D_2025_07_31, 10, 1),
      CsvRow("FED-25JUN", D_2025_06_16, D_2025_06_18, 10, 1),
      CsvRow("FED-25MAR", D_2025_06_16, D_2025_03_19, 10, 1)>>

ExampleCpiFile == <<CsvRow("CPI-25JUN", D_2025_06_17, D_2025_06_18, 10, 1)>>

SpecContracts == {"FED-25JUL", "FED-25JUN", "CPI-25JUN", "FED-26JAN"}

TypeNames == {"", FED_LEVELS, HEADLINE_CPI, "unemployment_releases"}

OptionalTypes == {None} \cup {Some(t) : t \in TypeNames}

SpecDateLists ==
    {<<D_2025_06_16>>, <<D_2025_06_20>>, <<D_2025_06_16, D_2025_06_20>>,
     <<D_2025_06_17, D_2025_06_16>>, <<D_2025_06_16, D_2025_06_16>>}

SpecBins == {None, Some(5), Some(15)}

\* Wall-clock readings: the morning of 2025-06-18, midnight of 2025-06-19,
\* an afternoon after every horizon and a morning before every horizon.
Nows == {2025061809, 2025061900, 2025080115, 2025010109}

Init ==
    /\ \/ \E fed \in FilesOf(FedRowChoices, MaxRows) :
             \E cpi \in FilesOf(CpiRowChoices, MaxRows - Len(fed)) :
                 /\ UniqueStrikes(fed) /\ UniqueStrikes(cpi)
                 /\ fed_csv = fed
                 /\ cpi_csv = cpi
       \/ fed_csv = ExampleFedFile /\ cpi_csv = ExampleCpiFile
    /\ kalshi_data = <<>>
    /\ phase = "startup"
    /\ request = NoRequest
    /\ response = NoResponse
    /\ steps = <<>>

Next ==
    \/ Startup
    \/ GetContracts(OptionalTypes)
    \/ GetTypes
    \/ GetPredictionDates(SpecContracts, TypeNames)
    \/ GetDistribution(SpecContracts, SpecDateLists, SpecBins)
    \/ GetContractInfo(SpecContracts, Nows)
    \/ Reply

Spec == Init /\ [][Next]_vars

(***************************************************************************)
(* Properties of the query surface and of the assembly (checked under      *)
(* Spec).                                                                  *)
(***************************************************************************)
TableRows == Range(kalshi_data)

KnownContracts == {r.contract_preamble : r \in TableRows}

KnownTypes == {r.type : r \in TableRows}

\* The input files hold a row of contract c taken on the date written date_str.
HasRows(c, date_str) ==
    \E x \in Range(fed_csv) \cup Range(cpi_csv) :
        x.contract_preamble = c /\ x.date = date_str

Serving(op) == phase = "serving" /\ request.op = op

\* The parts of C8 that do not depend on how a category is written.
EmptyForNoMatch ==
    /\ Serving("distribution") =>
          /\ response.status = "ok"
          /\ \A d \in Range(request.prediction_dates) :
                ~HasRows(request.contract_preamble, d) => RecordsOf(d) = <<>>
    /\ Serving("contract_info") /\ request.contract_preamble \notin KnownContracts =>
          /\ response.status = "ok"
          /\ DOMAIN response.body = {}
    /\ Serving("prediction_dates")
          /\ (request.contract_preamble \notin KnownContracts
                \/ request.type \notin KnownTypes) =>
          /\ response.status = "ok"
          /\ response.body.dates = <<>>

\* C8 as stated: a query without matching rows returns an empty result and
\* no error; in particular list contracts returns an empty list for every
\* category that no row of the table carries.
EmptyResultsAsStated ==
    /\ EmptyForNoMatch
    /\ Serving("contracts") /\ request.type # None
          /\ Val(request.type) \notin KnownTypes =>
          /\ response.status = "ok"
          /\ response.body.contracts = <<>>

\* C8 (amended): as stated, with list contracts returning an empty list for
\* every unknown category other than the empty string; the empty string is
\* no filter and lists the contracts of every category.
EmptyResults ==
    /\ EmptyForNoMatch
    /\ Serving("contracts") /\ request.type # None
          /\ Val(request.type) \notin KnownTypes /\ Val(request.type) # "" =>
          /\ response.status = "ok"
          /\ response.body.contracts = <<>>
    /\ Serving("contracts") /\ request.type = Some("") =>
          /\ response.status = "ok"
          /\ Range(response.body.contracts) = KnownContracts

\* A known contract asked for a date it has rows on and a date it has none
\* on, with a lower bin that folds mass on the first: the second is empty.
EmptyResultsWitness ==
    /\ Serving("distribution")
    /\ request.prediction_dates = <<D_2025_06_16, D_2025_06_20>>
    /\ request.smallest_bin = Some(15)
    /\ HasRows(request.contract_preamble, D_2025_06_16)
    /\ ~HasRows(request.contract_preamble, D_2025_06_20)
    /\ RecordsOf(D_2025_06_16) = <<[strike |-> 15, probability |-> 1]>>
    /\ RecordsOf(D_2025_06_20) = <<>>

MaxIn(S) == CHOOSE m \in S : \A x \in S : x <= m

\* C9: previous_horizon_date is the latest horizon among the rows of the
\* contract's category that is strictly before the contract's horizon and
\* strictly before today, and is empty when there is none.
PreviousHorizon ==
    Serving("contract_info") /\ request.contract_preamble \in KnownContracts =>
        LET first == kalshi_data[CHOOSE i \in DOMAIN kalshi_data :
                        /\ kalshi_data[i].contract_preamble = request.contract_preamble
                        /\ \A j \in 1..(i - 1) :
                              kalshi_data[j].contract_preamble # request.contract_preamble]
            days  == {r.horizon_date \div 100 :
                        r \in {x \in TableRows : x.type = first.type}}
            candidates == {h \in days : /\ h < first.horizon_date \div 100
                                        /\ h < request.now \div 100}
        IN  /\ response.status = "ok"
            /\ response.body.horizon_date = first.horizon_date \div 100
            /\ response.body.previous_horizon_date =
                  IF candidates = {} THEN None ELSE Some(MaxIn(candidates))

\* Horizons 2025-07-30, 2025-06-18 and 2025-03-19 in the category, the
\* contract of 2025-07-30 asked on 2025-06-19: the answer is 2025-06-18.
PreviousHorizonWitness ==
    /\ Serving("contract_info")
    /\ fed_csv = ExampleFedFile
    /\ request.contract_preamble = "FED-25JUL"
    /\ request.now = 2025061900
    /\ response.body.horizon_date = 20250730
    /\ response.body.previous_horizon_date = Some(20250618)

RowOrders(n) == {p \in [1..n -> 1..n] : \A i, j \in 1..n : i # j => p[i] # p[j]}

ExpectedHorizon(c) ==
    CASE c = "FED-25JUL" -> 2025073000
      [] c = "FED-25SEP" -> 2025091700
      [] c = "FED-25OCT" -> 2025102900
      [] c = "FED-25DEC" -> 2025121000

\* C10: the override applied twice equals the override applied once; a row
\* whose contract is a key of the map gets the mapped date, any other row
\* keeps its horizon, no other field changes, and permuting the rows before
\* the override permutes its result.
OverrideIdempotent ==
    LET rows == load_and_process_csv(fed_csv, FED_LEVELS)
        once == apply_horizon_override(rows)
    IN  /\ apply_horizon_override(once) = once
        /\ DOMAIN once = DOMAIN rows
        /\ \A i \in DOMAIN rows :
              once[i] = [rows[i] EXCEPT !.horizon_date =
                            IF rows[i].contract_preamble
                                   \in {"FED-25JUL", "FED-25SEP", "FED-25OCT", "FED-25DEC"}
                            THEN ExpectedHorizon(rows[i].contract_preamble)
                            ELSE @]
        /\ \A p \in RowOrders(Len(rows)) :
              apply_horizon_override([i \in DOMAIN rows |-> rows[p[i]]])
                  = [i \in DOMAIN rows |-> once[p[i]]]
        /\ phase = "serving" => SubSeq(kalshi_data, 1, Len(fed_csv)) = once

\* A table built from a FED-25JUL row with nominal expiry 2025-07-31 and a
\* row of a contract outside the map.
OverrideIdempotentWitness ==
    /\ phase = "serving"
    /\ Len(fed_csv) = 2
    /\ fed_csv[1].contract_preamble = "FED-25JUN"
    /\ fed_csv[2].contract_preamble = "FED-25JUL"
    /\ fed_csv[2].expiry_date = D_2025_07_31
    /\ kalshi_data[1].horizon_date = to_datetime(fed_csv[1].expiry_date)
    /\ kalshi_data[2].horizon_date = 2025073000

\* The rows the two input files hold, as the table rows they are loaded to,
\* without the override: the horizon of each is left out of the comparison.
WithoutHorizon(r) ==
    [prediction_date |-> r.prediction_date, contract_preamble |-> r.contract_preamble,
     strike |-> r.strike, probability |-> r.probability, type |-> r.type]

\* What a request is answered from a table.
AnswerOn(table, req) ==
    CASE req.op = "contracts" -> Ok(get_contracts(table, req.type))
      [] req.op = "types" -> Ok(get_types(table))
      [] req.op = "prediction_dates" ->
            Ok(get_prediction_dates(table, req.contract_preamble, req.type))
      [] req.op = "distribution" ->
            Ok(get_distribution(table, req.contract_preamble, req.prediction_dates,
                                req.smallest_bin, req.largest_bin))
      [] req.op = "contract_info" ->
            get_contract_info(table, req.contract_preamble, req.now)

RowsOf(c) == {r \in TableRows : r.contract_preamble = c}

ConstantHorizon(c) == \A r1, r2 \in RowsOf(c) : r1.horizon_date = r2.horizon_date

\* The number of entries of the sequence seq equal to x.
Occurrences(seq, x) == Cardinality({i \in DOMAIN seq : seq[i] = x})

\* The rows a /contracts request of category type lists contracts from.
ListedRows(type) ==
    IF type # None /\ Val(type) # ""
    THEN {r \in TableRows : r.type = Val(type)}
    ELSE TableRows

\* What follows for the two queries from a contract c having one horizon:
\* the metadata horizon is the horizon of all its rows, and list contracts
\* names it at most once.
OneHorizonAnswers(c) ==
    /\ Serving("contract_info") /\ request.contract_preamble = c =>
          /\ response.status = "ok"
          /\ \A r \in RowsOf(c) : r.horizon_date \div 100 = response.body.horizon_date
    /\ Serving("contracts") => Occurrences(response.body.contracts, c) <= 1

\* C12 as stated: in the assembled table all rows of a contract have the
\* same horizon_date, in every category, so the metadata horizon is that of
\* all its rows and list contracts names each contract once.
HorizonConstancyAsStated ==
    phase = "serving" =>
        \A c \in KnownContracts : ConstantHorizon(c) /\ OneHorizonAnswers(c)

\* C12 (amended): the fed_levels rows of a contract that is a key of the
\* override map all have the mapped horizon_date; the rows of any other
\* contract have one horizon_date exactly when their expiry dates agree in
\* the input files.  A contract whose rows have one horizon_date gets that
\* horizon from fetch contract metadata and is named once by list contracts;
\* in general list contracts names a contract once per horizon_date it has.
HorizonConstancy ==
    phase = "serving" =>
        /\ \A r \in TableRows :
              r.type = FED_LEVELS /\ r.contract_preamble \in DOMAIN HORIZON_MAP =>
                  r.horizon_date = ExpectedHorizon(r.contract_preamble)
        /\ \A c \in KnownContracts \ DOMAIN HORIZON_MAP :
              ConstantHorizon(c) <=>
                  \A x, y \in Range(fed_csv) \cup Range(cpi_csv) :
                      x.contract_preamble = c /\ y.contract_preamble = c =>
                          x.expiry_date = y.expiry_date
        /\ \A c \in KnownContracts : ConstantHorizon(c) => OneHorizonAnswers(c)
        /\ Serving("contracts") =>
              \A c \in KnownContracts :
                  Occurrences(response.body.contracts, c) =
                      Cardinality({r.horizon_date :
                                      r \in RowsOf(c) \cap ListedRows(request.type)})

\* Two FED-25JUL rows whose expiry dates differ in the file share the mapped
\* horizon in the table, and list contracts names the contract once.
HorizonConstancyWitness ==
    /\ Serving("contracts")
    /\ request.type = Some(FED_LEVELS)
    /\ Len(fed_csv) = 2
    /\ fed_csv[1].contract_preamble = "FED-25JUL"
    /\ fed_csv[2].contract_preamble = "FED-25JUL"
    /\ fed_csv[1].expiry_date # fed_csv[2].expiry_date
    /\ kalshi_data[1].horizon_date = 2025073000
    /\ kalshi_data[2].horizon_date = 2025073000
    /\ response.body.contracts = <<"FED-25JUL">>

====
